---- MODULE Spec2Model ----
(***************************************************************************)
(* pki.io entity: a cryptographic identity with a signing key pair and an  *)
(* encryption key pair, and the operations that sign, authenticate,        *)
(* encrypt, decrypt and verify containers (envelopes).                     *)
(*                                                                         *)
(* The operations of entity/entity.go are translated statement by          *)
(* statement.  The packages crypto and document, which entity.go imports,  *)
(* are modelled symbolically from their contract: a signature is the term  *)
(* (mode, key, message), a derived key is the term (secret, salt), a       *)
(* ciphertext is the plaintext locked under a content key, and a wrapped   *)
(* key names the public key it was wrapped for.                            *)
(***************************************************************************)
EXTENDS Naturals, Sequences, FiniteSets, TLC

VARIABLES
    entities,     \* slot -> Entity.Data.Body
    containers,   \* slot -> document.Container data
    sent,         \* slot -> history of the container: what was sealed, what was encrypted
    generated,    \* number of key generations started so far (names fresh keys)
    last          \* the last call: operation, receiver, arguments, returned value, calls made

vars == <<entities, containers, sent, generated, last>>

\* How many times GenerateKeys may run in one behaviour.
MaxGenerate == 2

--------------------------------------------------------------------------
(* Values *)

KeyTypeRSA == "rsa"
KeyTypeEC == "ec"
\* "dsa" stands for every key-type string that is neither "rsa" nor "ec".
KeyTypes == {KeyTypeRSA, KeyTypeEC, "dsa"}

SignatureModeSha256Rsa == "RSA-SHA256"
SignatureModeSha256Ecdsa == "ECDSA-SHA256"
SignatureModeSha256Hmac == "HMAC-SHA256"

EntitySlots == {1, 2, 3, 4}
ContainerSlots == {1, 2}

\* One caller with its container.
OneCaller == {1}
Contents == {"hello", "hellp"}

\* The empty string in a key field.
EmptyPem == [kind |-> "", kt |-> "", use |-> "", gen |-> 0]

\* A freshly generated private key of type kt: generation g, for signing or encryption.
GenerateKey(kt, use, g) == [kt |-> kt, use |-> use, gen |-> g]

PemEncodePublic(key) == [kind |-> "public", kt |-> key.kt, use |-> key.use, gen |-> key.gen]

PemEncodePrivate(key) == [kind |-> "private", kt |-> key.kt, use |-> key.use, gen |-> key.gen]

\* The key pair a PEM block belongs to.
PemDecode(pem) == [kt |-> pem.kt, use |-> pem.use, gen |-> pem.gen]

\* EntityDefault with the body fields a loaded document gives.
NewEntity(id, name, keyType) ==
    [Id |-> id, Name |-> name, KeyType |-> keyType,
     PublicSigningKey |-> EmptyPem, PrivateSigningKey |-> EmptyPem,
     PublicEncryptionKey |-> EmptyPem, PrivateEncryptionKey |-> EmptyPem]

EntityDefault == NewEntity("", "", KeyTypeEC)

\* The empty string in the signature field.
NoSignature == [alg |-> "", key |-> <<>>, msg |-> <<>>]

PlainBody(text) == [text |-> text, ck |-> 0]

\* document.NewContainer(nil): the default container.
NewContainer ==
    [Source |-> "", SignatureMode |-> "", SignatureInputs |-> {},
     Signature |-> NoSignature, EncryptionMode |-> "", EncryptionKeys |-> {},
     Body |-> PlainBody("")]

\* container.Dump(): the fields in their fixed order.
Dump(con) ==
    <<con.Source, con.SignatureMode, con.SignatureInputs, con.Signature,
      con.EncryptionMode, con.EncryptionKeys, con.Body>>

IsSigned(con) == con.Signature # NoSignature

IsEncrypted(con) == con.EncryptionMode # ""

\* nil error; an error is the sequence of its messages, outermost first.
Nil == <<>>

Errorf(msg, err) == <<msg>> \o err

--------------------------------------------------------------------------
(* crypto: signatures *)

ModeKeyType(mode) ==
    CASE mode = SignatureModeSha256Rsa -> KeyTypeRSA
      [] mode = SignatureModeSha256Ecdsa -> KeyTypeEC
      [] OTHER -> ""

\* crypto.Sign(message, privateKeyPem, signature): fills signature.Message and
\* signature.Signature.  fault: the primitive itself fails.
CryptoSign(message, pem, mode, fault) ==
    IF pem.kind # "private"
    THEN [err |-> <<"PrivateKeyMissing">>, Message |-> <<>>, Signature |-> NoSignature]
    ELSE IF pem.kt # ModeKeyType(mode) \/ fault = "primitive"
    THEN [err |-> <<"SigningError">>, Message |-> <<>>, Signature |-> NoSignature]
    ELSE [err |-> Nil, Message |-> message,
          Signature |-> [alg |-> mode, key |-> PemDecode(pem), msg |-> message]]

\* crypto.Verify(signed, publicKeyPem)
CryptoVerify(signature, message, pem) ==
    IF pem.kind # "public"
    THEN <<"InvalidEncoding">>
    ELSE IF /\ signature.key = PemDecode(pem)
            /\ signature.msg = message
            /\ ModeKeyType(signature.alg) = pem.kt
    THEN Nil
    ELSE <<"VerificationError">>

--------------------------------------------------------------------------
(* Entity: documents and keys *)

\* entity.Dump(): the body fields in schema order.
EntityDump(ent) ==
    <<ent.Id, ent.Name, ent.KeyType, ent.PublicSigningKey, ent.PrivateSigningKey,
      ent.PublicEncryptionKey, ent.PrivateEncryptionKey>>

\* New(json) / entity.Load(json): the entity a dumped document describes.
EntityLoad(json) ==
    [Id |-> json[1], Name |-> json[2], KeyType |-> json[3],
     PublicSigningKey |-> json[4], PrivateSigningKey |-> json[5],
     PublicEncryptionKey |-> json[6], PrivateEncryptionKey |-> json[7]]

\* Where a step of key generation can fail.
RsaFaults ==
    {"generateSigning", "generateEncryption", "validateSigning",
     "validateEncryption", "encodeRsaPublic"}
EcFaults == {"generateSigning", "generateEncryption"}
EncodeFaults ==
    {"encodePublicSigning", "encodePrivateSigning", "encodePublicEncryption",
     "encodePrivateEncryption"}
GenerateFaults == {"none"} \cup RsaFaults \cup EncodeFaults

generateRSAKeys(ent, g, fault) ==
    LET signingKey == GenerateKey(KeyTypeRSA, "sign", g)
        encryptionKey == GenerateKey(KeyTypeRSA, "enc", g)
        two == <<"crypto.GenerateRSAKey", "crypto.GenerateRSAKey">>
        failed(err, calls) ==
            [ent |-> ent, err |-> err, calls |-> calls,
             signingKey |-> signingKey, encryptionKey |-> encryptionKey]
    IN  IF fault = "generateSigning"
        THEN failed(<<"KeyGenerationError">>, <<"crypto.GenerateRSAKey">>)
        ELSE IF fault = "generateEncryption"
        THEN failed(<<"KeyGenerationError">>, two)
        ELSE IF fault = "validateSigning"
        THEN failed(Errorf("Could not validate signing key", <<"KeyGenerationError">>), two)
        ELSE IF fault = "validateEncryption"
        THEN failed(Errorf("Could not validate encryption key", <<"KeyGenerationError">>), two)
        ELSE IF fault = "encodeRsaPublic"
        THEN failed(<<"InvalidEncoding">>, Append(two, "crypto.PemEncodePublic"))
        ELSE [ent |-> [ent EXCEPT !.PublicSigningKey = PemEncodePublic(signingKey)],
              err |-> Nil, calls |-> Append(two, "crypto.PemEncodePublic"),
              signingKey |-> signingKey, encryptionKey |-> encryptionKey]

generateECKeys(ent, g, fault) ==
    LET signingKey == GenerateKey(KeyTypeEC, "sign", g)
        encryptionKey == GenerateKey(KeyTypeEC, "enc", g)
    IN  [ent |-> ent,
         err |-> IF fault \in EcFaults THEN <<"KeyGenerationError">> ELSE Nil,
         calls |-> IF fault = "generateSigning"
                   THEN <<"crypto.GenerateECKey">>
                   ELSE <<"crypto.GenerateECKey", "crypto.GenerateECKey">>,
         signingKey |-> signingKey, encryptionKey |-> encryptionKey]

\* The slip of a switch without its default case: any other key type
\* generates EC keys.
GenerateKeysOp_NoDefault(ent, g, fault) ==
    LET k == IF ent.KeyType = KeyTypeRSA
             THEN generateRSAKeys(ent, g, fault)
             ELSE generateECKeys(ent, g, fault)
    IN  IF k.err # Nil THEN [ent |-> k.ent, err |-> k.err, calls |-> k.calls]
        ELSE [ent |-> [k.ent EXCEPT
                          !.PublicSigningKey = PemEncodePublic(k.signingKey),
                          !.PrivateSigningKey = PemEncodePrivate(k.signingKey),
                          !.PublicEncryptionKey = PemEncodePublic(k.encryptionKey),
                          !.PrivateEncryptionKey = PemEncodePrivate(k.encryptionKey)],
              err |-> Nil,
              calls |-> k.calls \o <<"crypto.PemEncodePublic", "crypto.PemEncodePrivate",
                                     "crypto.PemEncodePublic", "crypto.PemEncodePrivate">>]

\* entity.GenerateKeys(): the entity afterwards, the error returned and the
\* calls made to crypto.
GenerateKeysOp(ent, g, fault) ==
    IF ent.KeyType \notin {KeyTypeRSA, KeyTypeEC}
    THEN [ent |-> ent, err |-> <<"Invalid key type">>, calls |-> <<>>]
    ELSE
    LET k == IF ent.KeyType = KeyTypeRSA
             THEN generateRSAKeys(ent, g, fault)
             ELSE generateECKeys(ent, g, fault)
        e1 == [k.ent EXCEPT !.PublicSigningKey = PemEncodePublic(k.signingKey)]
        e2 == [e1 EXCEPT !.PrivateSigningKey = PemEncodePrivate(k.signingKey)]
        e3 == [e2 EXCEPT !.PublicEncryptionKey = PemEncodePublic(k.encryptionKey)]
        e4 == [e3 EXCEPT !.PrivateEncryptionKey = PemEncodePrivate(k.encryptionKey)]
        c1 == Append(k.calls, "crypto.PemEncodePublic")
        c2 == Append(c1, "crypto.PemEncodePrivate")
        c3 == Append(c2, "crypto.PemEncodePublic")
        c4 == Append(c3, "crypto.PemEncodePrivate")
        failed(e, calls) == [ent |-> e, err |-> <<"InvalidEncoding">>, calls |-> calls]
    IN  IF k.err # Nil THEN [ent |-> k.ent, err |-> k.err, calls |-> k.calls]
        ELSE IF fault = "encodePublicSigning" THEN failed(k.ent, c1)
        ELSE IF fault = "encodePrivateSigning" THEN failed(e1, c2)
        ELSE IF fault = "encodePublicEncryption" THEN failed(e2, c3)
        ELSE IF fault = "encodePrivateEncryption" THEN failed(e3, c4)
        ELSE [ent |-> e4, err |-> Nil, calls |-> c4]

\* The slip of copying the pointer instead of loading the dump: the private
\* keys are erased on the entity itself.
PublicOp_SharesEntity(ent) ==
    LET publicEntity == [ent EXCEPT !.PrivateSigningKey = EmptyPem,
                                    !.PrivateEncryptionKey = EmptyPem]
    IN  [entity |-> publicEntity, public |-> publicEntity]

\* entity.Public(): a new entity loaded from the dump, private keys erased.
\* Returns the receiver as the call leaves it and the entity returned.
PublicOp(ent) ==
    LET selfJson == EntityDump(ent)
        publicEntity == EntityLoad(selfJson)
    IN  [entity |-> ent,
         public |-> [publicEntity EXCEPT !.PrivateSigningKey = EmptyPem,
                                         !.PrivateEncryptionKey = EmptyPem]]

--------------------------------------------------------------------------
(* Entity: Sign and Verify *)

SignFaults == {"none", "primitive"}

\* The slip of serializing before the old signature is cleared.
SignOp_KeepsStaleSignature(ent, con, fault) ==
    IF ent.KeyType \notin {KeyTypeRSA, KeyTypeEC}
    THEN [con |-> con, err |-> <<"Invalid key type">>, msg |-> <<>>, calls |-> <<>>]
    ELSE
    LET signatureMode == IF ent.KeyType = KeyTypeRSA
                         THEN SignatureModeSha256Rsa
                         ELSE SignatureModeSha256Ecdsa
        moded == [con EXCEPT !.SignatureMode = signatureMode]
        containerJson == Dump(moded)
        signature == CryptoSign(containerJson, ent.PrivateSigningKey, signatureMode, fault)
    IN  IF signature.err # Nil
        THEN [con |-> [moded EXCEPT !.Signature = NoSignature],
              err |-> Errorf("Could not sign container json", signature.err),
              msg |-> containerJson, calls |-> <<"crypto.Sign">>]
        ELSE [con |-> [moded EXCEPT !.Signature = signature.Signature],
              err |-> Nil, msg |-> containerJson, calls |-> <<"crypto.Sign">>]

\* The slip of a switch without its default case: any other key type signs
\* as EC.
SignOp_NoDefault(ent, con, fault) ==
    LET signatureMode == IF ent.KeyType = KeyTypeRSA
                         THEN SignatureModeSha256Rsa
                         ELSE SignatureModeSha256Ecdsa
        cleared == [con EXCEPT !.SignatureMode = signatureMode,
                               !.Signature = NoSignature]
        containerJson == Dump(cleared)
        signature == CryptoSign(containerJson, ent.PrivateSigningKey, signatureMode, fault)
    IN  IF signature.err # Nil
        THEN [con |-> cleared,
              err |-> Errorf("Could not sign container json", signature.err),
              msg |-> containerJson, calls |-> <<"crypto.Sign">>]
        ELSE [con |-> [cleared EXCEPT !.Signature = signature.Signature],
              err |-> Nil, msg |-> containerJson, calls |-> <<"crypto.Sign">>]

\* entity.Sign(container): the container afterwards, the error, the bytes
\* handed to crypto.Sign and the calls made.
SignOp(ent, con, fault) ==
    IF ent.KeyType \notin {KeyTypeRSA, KeyTypeEC}
    THEN [con |-> con, err |-> <<"Invalid key type">>, msg |-> <<>>, calls |-> <<>>]
    ELSE
    LET signatureMode == IF ent.KeyType = KeyTypeRSA
                         THEN SignatureModeSha256Rsa
                         ELSE SignatureModeSha256Ecdsa
        cleared == [con EXCEPT !.SignatureMode = signatureMode,
                               !.Signature = NoSignature]
        containerJson == Dump(cleared)
        signature == CryptoSign(containerJson, ent.PrivateSigningKey, signatureMode, fault)
    IN  IF signature.err # Nil
        THEN [con |-> cleared,
              err |-> Errorf("Could not sign container json", signature.err),
              msg |-> containerJson, calls |-> <<"crypto.Sign">>]
        ELSE IF signature.Message # containerJson
        THEN [con |-> cleared, err |-> <<"Signed message doesn't match input">>,
              msg |-> containerJson, calls |-> <<"crypto.Sign">>]
        ELSE [con |-> [cleared EXCEPT !.SignatureMode = signatureMode,
                                      !.Signature = signature.Signature],
              err |-> Nil, msg |-> containerJson, calls |-> <<"crypto.Sign">>]

\* The slip of serializing before the signature is cleared.
VerifyOp_KeepsSignature(ent, con) ==
    IF ~IsSigned(con)
    THEN [con |-> con, err |-> <<"Container isn't signed">>, msg |-> <<>>, calls |-> <<>>]
    ELSE
    LET signature == con.Signature
        containerJson == Dump(con)
        err == CryptoVerify(signature, containerJson, ent.PublicSigningKey)
    IN  [con |-> [con EXCEPT !.Signature = NoSignature],
         err |-> IF err # Nil
                 THEN Errorf("Could not verify org container signature", err)
                 ELSE Nil,
         msg |-> containerJson, calls |-> <<"crypto.Verify">>]

\* The slip of checking the signature against the key it names itself
\* rather than the entity's public signing key.
VerifyOp_TrustsSignatureKey(ent, con) ==
    IF ~IsSigned(con)
    THEN [con |-> con, err |-> <<"Container isn't signed">>, msg |-> <<>>, calls |-> <<>>]
    ELSE
    LET signature == con.Signature
        cleared == [con EXCEPT !.Signature = NoSignature]
        containerJson == Dump(cleared)
        err == CryptoVerify(signature, containerJson, PemEncodePublic(signature.key))
    IN  [con |-> cleared,
         err |-> IF err # Nil
                 THEN Errorf("Could not verify org container signature", err)
                 ELSE Nil,
         msg |-> containerJson, calls |-> <<"crypto.Verify">>]

\* The change of putting the signature back once it is checked.
VerifyOp_RestoresSignature(ent, con) ==
    IF ~IsSigned(con)
    THEN [con |-> con, err |-> <<"Container isn't signed">>, msg |-> <<>>, calls |-> <<>>]
    ELSE
    LET signature == con.Signature
        cleared == [con EXCEPT !.Signature = NoSignature]
        containerJson == Dump(cleared)
        err == CryptoVerify(signature, containerJson, ent.PublicSigningKey)
    IN  [con |-> [cleared EXCEPT !.Signature = signature],
         err |-> IF err # Nil
                 THEN Errorf("Could not verify org container signature", err)
                 ELSE Nil,
         msg |-> containerJson, calls |-> <<"crypto.Verify">>]

\* The slip of leaving out the check that the container is signed.
VerifyOp_NoSignedCheck(ent, con) ==
    LET signature == con.Signature
        cleared == [con EXCEPT !.Signature = NoSignature]
        containerJson == Dump(cleared)
        err == CryptoVerify(signature, containerJson, ent.PublicSigningKey)
    IN  [con |-> cleared,
         err |-> IF err # Nil
                 THEN Errorf("Could not verify org container signature", err)
                 ELSE Nil,
         msg |-> containerJson, calls |-> <<"crypto.Verify">>]

\* entity.Verify(container)
VerifyOp(ent, con) ==
    IF ~IsSigned(con)
    THEN [con |-> con, err |-> <<"Container isn't signed">>, msg |-> <<>>, calls |-> <<>>]
    ELSE
    LET signature == con.Signature
        cleared == [con EXCEPT !.Signature = NoSignature]
        containerJson == Dump(cleared)
        err == CryptoVerify(signature, containerJson, ent.PublicSigningKey)
    IN  [con |-> cleared,
         err |-> IF err # Nil
                 THEN Errorf("Could not verify org container signature", err)
                 ELSE Nil,
         msg |-> containerJson, calls |-> <<"crypto.Verify">>]

--------------------------------------------------------------------------
(* crypto: encodings, key expansion, HMAC *)

HexKeys == {"deadbeef", "DEADBEEF", "deadbee0", "xyz"}
KeyIds == {"keyA"}
Salts == {"s1", "s2"}

\* hex.DecodeString: the bytes, or an error for a string that is not hex.
HexDecode(key) ==
    CASE key = "deadbeef" -> [err |-> Nil, bytes |-> <<222, 173, 190, 239>>]
      [] key = "DEADBEEF" -> [err |-> Nil, bytes |-> <<222, 173, 190, 239>>]
      [] key = "deadbee0" -> [err |-> Nil, bytes |-> <<222, 173, 190, 224>>]
      [] key = "" -> [err |-> Nil, bytes |-> <<>>]
      [] OTHER -> [err |-> <<"InvalidEncoding">>, bytes |-> <<>>]

\* crypto.Base64Encode(salt)
Base64Encode(salt) ==
    CASE salt = "s1" -> "czE="
      [] salt = "s2" -> "czI="
      [] OTHER -> ""

\* crypto.Base64Decode(text): the bytes, or an error for text that is not base64.
Base64Decode(text) ==
    CASE text = "czE=" -> [err |-> Nil, bytes |-> "s1"]
      [] text = "czI=" -> [err |-> Nil, bytes |-> "s2"]
      [] text = "" -> [err |-> Nil, bytes |-> ""]
      [] OTHER -> [err |-> <<"InvalidEncoding">>, bytes |-> ""]

\* crypto.ExpandKey(key, salt): the derived key and the salt used; a salt is
\* drawn (random) when none is given.
ExpandKey(rawKey, salt, random, fault) ==
    LET used == IF salt = "" THEN random ELSE salt
    IN  IF fault = "expand"
        THEN [err |-> <<"KeyExpansionError">>, key |-> <<>>, salt |-> ""]
        ELSE [err |-> Nil, key |-> [secret |-> rawKey, salt |-> used], salt |-> used]

\* crypto.HMAC(message, key, signature)
CryptoHMAC(message, key, fault) ==
    IF fault = "primitive"
    THEN [err |-> <<"AuthenticationError">>, Message |-> <<>>, Signature |-> NoSignature]
    ELSE [err |-> Nil, Message |-> message,
          Signature |-> [alg |-> SignatureModeSha256Hmac, key |-> key, msg |-> message]]

\* crypto.HMACVerify(message, key, mac): recompute and compare.
CryptoHMACVerify(message, key, mac) ==
    IF mac = CryptoHMAC(message, key, "none").Signature
    THEN Nil
    ELSE <<"AuthenticationVerificationError">>

\* A string map as a set of <<key, value>> pairs with distinct keys.
MapPut(m, k, v) == {p \in m : p[1] # k} \cup {<<k, v>>}

MapHas(m, k) == \E p \in m : p[1] = k

\* m[k]: the empty string for a key that is absent.
MapGet(m, k) == IF MapHas(m, k) THEN (CHOOSE p \in m : p[1] = k)[2] ELSE ""

--------------------------------------------------------------------------
(* Entity: Authenticate and VerifyAuthentication *)

AuthenticateFaults == {"none", "expand", "primitive"}

\* entity.Authenticate(container, id, key)
AuthenticateOp(ent, con, id, key, random, fault) ==
    LET rawKey == HexDecode(key)
        expanded == ExpandKey(rawKey.bytes, "", random, fault)
        signatureInputs ==
            MapPut(MapPut({}, "key-id", id), "signature-salt", Base64Encode(expanded.salt))
        cleared == [con EXCEPT !.SignatureMode = SignatureModeSha256Hmac,
                               !.SignatureInputs = signatureInputs,
                               !.Signature = NoSignature]
        containerJson == Dump(cleared)
        signature == CryptoHMAC(containerJson, expanded.key, fault)
    IN  IF rawKey.err # Nil
        THEN [con |-> con, err |-> Errorf("Could not decode key", rawKey.err),
              msg |-> <<>>, calls |-> <<>>]
        ELSE IF expanded.err # Nil
        THEN [con |-> con, err |-> Errorf("Cold not expand key", expanded.err),
              msg |-> <<>>, calls |-> <<"crypto.ExpandKey">>]
        ELSE IF signature.err # Nil
        THEN [con |-> cleared, err |-> Errorf("Could not HMAC container", signature.err),
              msg |-> containerJson, calls |-> <<"crypto.ExpandKey", "crypto.HMAC">>]
        ELSE IF signature.Message # containerJson
        THEN [con |-> cleared, err |-> <<"Authenticated message doesn't match">>,
              msg |-> containerJson, calls |-> <<"crypto.ExpandKey", "crypto.HMAC">>]
        ELSE [con |-> [cleared EXCEPT !.Signature = signature.Signature],
              err |-> Nil, msg |-> containerJson,
              calls |-> <<"crypto.ExpandKey", "crypto.HMAC">>]

\* The slip of expanding the key without the container's salt, as Authenticate does.
VerifyAuthenticationOp_FreshSalt(ent, con, key, random) ==
    LET rawKey == HexDecode(key)
        expanded == ExpandKey(rawKey.bytes, "", random, "none")
        mac == con.Signature
        cleared == [con EXCEPT !.Signature = NoSignature]
        containerJson == Dump(cleared)
        err == CryptoHMACVerify(containerJson, expanded.key, mac)
    IN  IF rawKey.err # Nil
        THEN [con |-> con, err |-> Errorf("Could not decode key", rawKey.err),
              msg |-> <<>>, calls |-> <<>>]
        ELSE [con |-> cleared,
              err |-> IF err # Nil THEN Errorf("Couldn't verify container", err) ELSE Nil,
              msg |-> containerJson,
              calls |-> <<"crypto.ExpandKey", "crypto.HMACVerify">>]

\* entity.VerifyAuthentication(container, key).  The error of the salt's
\* decoding is built and dropped: the function goes on with what was decoded.
VerifyAuthenticationOp(ent, con, key, random) ==
    LET rawKey == HexDecode(key)
        salt == Base64Decode(MapGet(con.SignatureInputs, "signature-salt"))
        expanded == ExpandKey(rawKey.bytes, salt.bytes, random, "none")
        mac == con.Signature
        cleared == [con EXCEPT !.Signature = NoSignature]
        containerJson == Dump(cleared)
        err == CryptoHMACVerify(containerJson, expanded.key, mac)
    IN  IF rawKey.err # Nil
        THEN [con |-> con, err |-> Errorf("Could not decode key", rawKey.err),
              msg |-> <<>>, calls |-> <<>>]
        ELSE IF expanded.err # Nil
        THEN [con |-> con, err |-> Errorf("Could not expand key", expanded.err),
              msg |-> <<>>, calls |-> <<"crypto.ExpandKey">>]
        ELSE [con |-> cleared,
              err |-> IF err # Nil THEN Errorf("Couldn't verify container", err) ELSE Nil,
              msg |-> containerJson,
              calls |-> <<"crypto.ExpandKey", "crypto.HMACVerify">>]

--------------------------------------------------------------------------
(* document: encryption of a container *)

ContentKeys == {1, 2}

\* container.Encrypt(content, keys): the content locked under a content key
\* and the content key wrapped for each public key of the map.
ContainerEncrypt(con, content, keys, ck) ==
    IF \E p \in keys : p[2].kind # "public"
    THEN [con |-> con, err |-> <<"EncryptionError">>]
    ELSE [con |-> [con EXCEPT !.EncryptionMode = "encrypted",
                              !.EncryptionKeys =
                                  {<<p[1], [for |-> PemDecode(p[2]), ck |-> ck]>> : p \in keys},
                              !.Body = [text |-> content, ck |-> ck]],
          err |-> Nil]

\* container.Decrypt(id, privateKeyPem): find the key wrapped for id, unwrap
\* it with the private key, unlock the body.
ContainerDecrypt(con, id, pem) ==
    LET wrapped == MapGet(con.EncryptionKeys, id)
    IN  IF pem.kind # "private"
        THEN [out |-> "", err |-> <<"PrivateKeyMissing">>]
        ELSE IF ~MapHas(con.EncryptionKeys, id)
        THEN [out |-> "", err |-> <<"DecryptionError">>]
        ELSE IF wrapped.for # PemDecode(pem) \/ wrapped.ck # con.Body.ck
        THEN [out |-> "", err |-> <<"DecryptionError">>]
        ELSE [out |-> con.Body.text, err |-> Nil]

--------------------------------------------------------------------------
(* Entity: Encrypt and Decrypt *)

\* How many entities a recipient list may hold.
MaxRecipients == 2

RECURSIVE CollectKeys(_, _)
\* The loop of Encrypt over the given entities: a later entity with the same
\* id replaces an earlier one.
CollectKeys(list, m) ==
    IF list = <<>> THEN m
    ELSE CollectKeys(Tail(list),
                     MapPut(m, Head(list).Id, Head(list).PublicEncryptionKey))

\* The slip of writing the source on the container once it is encrypted.
EncryptOp_SourceAfter(ent, content, recipients, ck) ==
    LET encryptionKeys ==
            CASE recipients.kind = "list" -> CollectKeys(recipients.list, {})
              [] recipients.kind = "nil" -> MapPut({}, ent.Id, ent.PublicEncryptionKey)
              [] OTHER -> {}
        container == NewContainer
        encrypted == ContainerEncrypt(container, content, encryptionKeys, ck)
    IN  IF recipients.kind \notin {"list", "nil"}
        THEN [ret |-> FALSE, con |-> NewContainer, err |-> <<"Invalid entities given">>,
              keys |-> {}, arg |-> NewContainer, calls |-> <<>>]
        ELSE IF encrypted.err # Nil
        THEN [ret |-> FALSE, con |-> NewContainer,
              err |-> Errorf("Could not encrypt container", encrypted.err),
              keys |-> encryptionKeys, arg |-> container, calls |-> <<"container.Encrypt">>]
        ELSE [ret |-> TRUE, con |-> [encrypted.con EXCEPT !.Source = ent.Id], err |-> Nil,
              keys |-> encryptionKeys, arg |-> container, calls |-> <<"container.Encrypt">>]

\* entity.Encrypt(content, entities).  recipients.kind is "nil", "list" (a
\* []*Entity) or "other" (a value of any other type).
EncryptOp(ent, content, recipients, ck) ==
    LET encryptionKeys ==
            CASE recipients.kind = "list" -> CollectKeys(recipients.list, {})
              [] recipients.kind = "nil" -> MapPut({}, ent.Id, ent.PublicEncryptionKey)
              [] OTHER -> {}
        container == [NewContainer EXCEPT !.Source = ent.Id]
        encrypted == ContainerEncrypt(container, content, encryptionKeys, ck)
    IN  IF recipients.kind \notin {"list", "nil"}
        THEN [ret |-> FALSE, con |-> NewContainer, err |-> <<"Invalid entities given">>,
              keys |-> {}, arg |-> NewContainer, calls |-> <<>>]
        ELSE IF encrypted.err # Nil
        THEN [ret |-> FALSE, con |-> NewContainer,
              err |-> Errorf("Could not encrypt container", encrypted.err),
              keys |-> encryptionKeys, arg |-> container, calls |-> <<"container.Encrypt">>]
        ELSE [ret |-> TRUE, con |-> encrypted.con, err |-> Nil,
              keys |-> encryptionKeys, arg |-> container, calls |-> <<"container.Encrypt">>]

\* The slip of taking the other private key.
DecryptOp_UsesSigningKey(ent, con) ==
    IF ~IsEncrypted(con)
    THEN [out |-> "", err |-> <<"Container isn't encrypted">>, calls |-> <<>>]
    ELSE
    LET decrypted == ContainerDecrypt(con, ent.Id, ent.PrivateSigningKey)
    IN  IF decrypted.err # Nil
        THEN [out |-> "", err |-> Errorf("Could not decrypt", decrypted.err),
              calls |-> <<"container.Decrypt">>]
        ELSE [out |-> decrypted.out, err |-> Nil, calls |-> <<"container.Decrypt">>]

\* The slip of dropping the error of container.Decrypt: whatever it gave is
\* returned with nil.
DecryptOp_DropsError(ent, con) ==
    IF ~IsEncrypted(con)
    THEN [out |-> "", err |-> <<"Container isn't encrypted">>, calls |-> <<>>]
    ELSE
    LET decrypted == ContainerDecrypt(con, ent.Id, ent.PrivateEncryptionKey)
    IN  [out |-> decrypted.out, err |-> Nil, calls |-> <<"container.Decrypt">>]

\* entity.Decrypt(container)
DecryptOp(ent, con) ==
    IF ~IsEncrypted(con)
    THEN [out |-> "", err |-> <<"Container isn't encrypted">>, calls |-> <<>>]
    ELSE
    LET id == ent.Id
        key == ent.PrivateEncryptionKey
        decrypted == ContainerDecrypt(con, id, key)
    IN  IF decrypted.err # Nil
        THEN [out |-> "", err |-> Errorf("Could not decrypt", decrypted.err),
              calls |-> <<"container.Decrypt">>]
        ELSE [out |-> decrypted.out, err |-> Nil, calls |-> <<"container.Decrypt">>]

--------------------------------------------------------------------------
(* Entity: the composite operations *)

\* entity.SignString(content)
SignStringOp(ent, content, fault) ==
    LET container == [NewContainer EXCEPT !.Source = ent.Id, !.Body = PlainBody(content)]
        signed == SignOp(ent, container, fault)
    IN  IF signed.err # Nil
        THEN [ret |-> FALSE, con |-> NewContainer,
              err |-> Errorf("Could not sign container", signed.err),
              msg |-> signed.msg, calls |-> signed.calls]
        ELSE [ret |-> TRUE, con |-> signed.con, err |-> Nil,
              msg |-> signed.msg, calls |-> signed.calls]

\* entity.AuthenticateString(content, id, key)
AuthenticateStringOp(ent, content, id, key, random, fault) ==
    LET container == [NewContainer EXCEPT !.Source = ent.Id, !.Body = PlainBody(content)]
        authenticated == AuthenticateOp(ent, container, id, key, random, fault)
    IN  IF authenticated.err # Nil
        THEN [ret |-> FALSE, con |-> NewContainer,
              err |-> Errorf("Could not sign container", authenticated.err),
              msg |-> authenticated.msg, calls |-> authenticated.calls]
        ELSE [ret |-> TRUE, con |-> authenticated.con, err |-> Nil,
              msg |-> authenticated.msg, calls |-> authenticated.calls]

\* The slip of the wrong order: the content is signed, then encrypted into
\* the signed container.
EncryptThenSignStringOp_SignsFirst(ent, content, recipients, ck, fault) ==
    LET signed == SignStringOp(ent, content, fault)
        encrypted == EncryptOp(ent, content, recipients, ck)
        both == ContainerEncrypt(signed.con, content, encrypted.keys, ck)
    IN  IF signed.err # Nil \/ encrypted.err # Nil
        THEN [ret |-> FALSE, con |-> NewContainer, err |-> <<"Couldn't encrypt content">>,
              msg |-> <<>>, keys |-> encrypted.keys, calls |-> <<>>]
        ELSE [ret |-> TRUE, con |-> both.con, err |-> Nil,
              msg |-> signed.msg, keys |-> encrypted.keys,
              calls |-> signed.calls \o encrypted.calls]

\* entity.EncryptThenSignString(content, entities)
EncryptThenSignStringOp(ent, content, recipients, ck, fault) ==
    LET encrypted == EncryptOp(ent, content, recipients, ck)
        signed == SignOp(ent, encrypted.con, fault)
    IN  IF encrypted.err # Nil
        THEN [ret |-> FALSE, con |-> NewContainer,
              err |-> Errorf("Couldn't encrypt content", encrypted.err),
              msg |-> <<>>, keys |-> encrypted.keys, calls |-> encrypted.calls]
        ELSE IF signed.err # Nil
        THEN [ret |-> FALSE, con |-> NewContainer,
              err |-> Errorf("Could not sign container", signed.err),
              msg |-> signed.msg, keys |-> encrypted.keys,
              calls |-> encrypted.calls \o signed.calls]
        ELSE [ret |-> TRUE, con |-> signed.con, err |-> Nil,
              msg |-> signed.msg, keys |-> encrypted.keys,
              calls |-> encrypted.calls \o signed.calls]

\* entity.EncryptThenAuthenticateString(content, entities, id, key)
EncryptThenAuthenticateStringOp(ent, content, recipients, id, key, ck, random, fault) ==
    LET encrypted == EncryptOp(ent, content, recipients, ck)
        authenticated == AuthenticateOp(ent, encrypted.con, id, key, random, fault)
    IN  IF encrypted.err # Nil
        THEN [ret |-> FALSE, con |-> NewContainer,
              err |-> Errorf("Couldn't encrypt content", encrypted.err),
              msg |-> <<>>, keys |-> encrypted.keys, calls |-> encrypted.calls]
        ELSE IF authenticated.err # Nil
        THEN [ret |-> FALSE, con |-> NewContainer,
              err |-> Errorf("Could not authenticate container", authenticated.err),
              msg |-> authenticated.msg, keys |-> encrypted.keys,
              calls |-> encrypted.calls \o authenticated.calls]
        ELSE [ret |-> TRUE, con |-> authenticated.con, err |-> Nil,
              msg |-> authenticated.msg, keys |-> encrypted.keys,
              calls |-> encrypted.calls \o authenticated.calls]

\* The slip of dropping the verification's error: the container is decrypted
\* whatever Verify returned.
VerifyThenDecryptOp_IgnoresVerify(ent, con) ==
    LET verified == VerifyOp(ent, con)
        decrypted == DecryptOp(ent, verified.con)
    IN  IF decrypted.err # Nil
        THEN [con |-> verified.con, out |-> "",
              err |-> Errorf("Could not decrypt container", decrypted.err),
              msg |-> verified.msg, calls |-> verified.calls \o decrypted.calls]
        ELSE [con |-> verified.con, out |-> decrypted.out, err |-> Nil,
              msg |-> verified.msg, calls |-> verified.calls \o decrypted.calls]

\* entity.VerifyThenDecrypt(container)
VerifyThenDecryptOp(ent, con) ==
    LET verified == VerifyOp(ent, con)
        decrypted == DecryptOp(ent, verified.con)
    IN  IF verified.err # Nil
        THEN [con |-> verified.con, out |-> "",
              err |-> Errorf("Could not verify container", verified.err),
              msg |-> verified.msg, calls |-> verified.calls]
        ELSE IF decrypted.err # Nil
        THEN [con |-> verified.con, out |-> "",
              err |-> Errorf("Could not decrypt container", decrypted.err),
              msg |-> verified.msg, calls |-> verified.calls \o decrypted.calls]
        ELSE [con |-> verified.con, out |-> decrypted.out, err |-> Nil,
              msg |-> verified.msg, calls |-> verified.calls \o decrypted.calls]

\* entity.VerifyAuthenticationThenDecrypt(container, key)
VerifyAuthenticationThenDecryptOp(ent, con, key, random) ==
    LET verified == VerifyAuthenticationOp(ent, con, key, random)
        decrypted == DecryptOp(ent, verified.con)
    IN  IF verified.err # Nil
        THEN [con |-> verified.con, out |-> "",
              err |-> Errorf("Could not verify container", verified.err),
              msg |-> verified.msg, calls |-> verified.calls]
        ELSE IF decrypted.err # Nil
        THEN [con |-> verified.con, out |-> "",
              err |-> Errorf("Could not decrypt container", decrypted.err),
              msg |-> verified.msg, calls |-> verified.calls \o decrypted.calls]
        ELSE [con |-> verified.con, out |-> decrypted.out, err |-> Nil,
              msg |-> verified.msg, calls |-> verified.calls \o decrypted.calls]

--------------------------------------------------------------------------
(* The state machine: callers holding entities and containers *)

\* The record of a call: what was called on which entity and container, what
\* it returned, the bytes it handed to the signing primitive, the calls it
\* made, and whether the container came in carrying a signature.
Call(op, e, c, err, out, msg, calls) ==
    [op |-> op, ent |-> e, con |-> c, err |-> err, out |-> out, msg |-> msg,
     calls |-> calls, ret |-> FALSE, keys |-> {}, rcpt |-> <<>>, secret |-> <<>>,
     stale |-> FALSE, to |-> 0, key |-> "", random |-> "", arg |-> NewContainer]

\* What is remembered of a container: the seal put on it (by Sign or
\* Authenticate) and the encryption it came from.
NoHistory ==
    [sealOp |-> "", sealed |-> NewContainer, signer |-> EmptyPem, secret |-> <<>>,
     content |-> "", rcpt |-> {}, enc |-> NewContainer]

Sealed(h, op, con, signer, secret) ==
    [h EXCEPT !.sealOp = op, !.sealed = con, !.signer = signer, !.secret = secret]

Unsealed(h) == Sealed(h, "", NewContainer, EmptyPem, <<>>)

Encrypted(content, rcpt, con) ==
    [NoHistory EXCEPT !.content = content, !.rcpt = rcpt, !.enc = con]

\* The values a recipients argument takes: absent, a list of entities, or a
\* value of another type.
RecipientLists ==
    {l \in UNION {[1..n -> EntitySlots] : n \in 0..MaxRecipients} :
        \A i, j \in DOMAIN l : i # j => l[i] # l[j]}

Recipients ==
    {[kind |-> "nil", list |-> <<>>], [kind |-> "other", list |-> <<>>]}
        \cup {[kind |-> "list", list |-> l] : l \in RecipientLists}

\* The argument as Encrypt sees it: the entities themselves.
Resolve(recipients) ==
    [kind |-> recipients.kind,
     list |-> [i \in DOMAIN recipients.list |-> entities[recipients.list[i]]]]

\* The recipients of a call of Encrypt by the entity in slot e: each with its
\* id and the public encryption key it holds.
Addressed(e, recipients) ==
    IF recipients.kind = "list"
    THEN {<<entities[s].Id, entities[s].PublicEncryptionKey>> :
             s \in {recipients.list[i] : i \in DOMAIN recipients.list}}
    ELSE {<<entities[e].Id, entities[e].PublicEncryptionKey>>}

Bodies == [text : Contents, ck : {0} \cup ContentKeys]

Init ==
    /\ entities = [s \in EntitySlots |->
                     CASE s = 1 -> NewEntity("A", "alice", KeyTypeRSA)
                       [] s = 2 -> NewEntity("B", "bob", KeyTypeEC)
                       [] s = 3 -> NewEntity("C", "carol", "dsa")
                       [] OTHER -> EntityDefault]
    /\ containers = [c \in ContainerSlots |-> NewContainer]
    /\ sent = [c \in ContainerSlots |-> NoHistory]
    /\ generated = 0
    /\ last = Call("New", 0, 0, Nil, "", <<>>, <<>>)

GenerateKeys(e, fault) ==
    /\ generated < MaxGenerate
    /\ LET r == GenerateKeysOp(entities[e], generated + 1, fault)
       IN  /\ entities' = [entities EXCEPT ![e] = r.ent]
           /\ last' = Call("GenerateKeys", e, 0, r.err, "", <<>>, r.calls)
    /\ generated' = generated + 1
    /\ UNCHANGED <<containers, sent>>

\* t = e.Public(): the view is a new entity, kept in slot t.
Public(e, t) ==
    /\ t # e
    /\ LET r == PublicOp(entities[e])
       IN  entities' = [entities EXCEPT ![e] = r.entity, ![t] = r.public]
    /\ last' = [Call("Public", e, 0, Nil, "", <<>>, <<>>) EXCEPT !.ret = TRUE, !.to = t]
    /\ UNCHANGED <<containers, sent, generated>>

\* The slip of erasing the private key once it has signed.
Sign_ErasesKey(e, c, fault) ==
    LET r == SignOp(entities[e], containers[c], fault)
    IN  /\ containers' = [containers EXCEPT ![c] = r.con]
        /\ sent' = [sent EXCEPT ![c] =
                      IF r.err = Nil
                      THEN Sealed(@, "Sign", r.con, entities[e].PublicSigningKey, <<>>)
                      ELSE Unsealed(@)]
        /\ last' = [Call("Sign", e, c, r.err, "", r.msg, r.calls)
                      EXCEPT !.stale = IsSigned(containers[c])]
        /\ entities' = [entities EXCEPT ![e].PrivateSigningKey = EmptyPem]
        /\ UNCHANGED generated

Sign(e, c, fault) ==
    LET r == SignOp(entities[e], containers[c], fault)
    IN  /\ containers' = [containers EXCEPT ![c] = r.con]
        /\ sent' = [sent EXCEPT ![c] =
                      IF r.err = Nil
                      THEN Sealed(@, "Sign", r.con, entities[e].PublicSigningKey, <<>>)
                      ELSE Unsealed(@)]
        /\ last' = [Call("Sign", e, c, r.err, "", r.msg, r.calls)
                      EXCEPT !.stale = IsSigned(containers[c])]
        /\ UNCHANGED <<entities, generated>>

Verify(e, c) ==
    LET r == VerifyOp(entities[e], containers[c])
    IN  /\ containers' = [containers EXCEPT ![c] = r.con]
        /\ last' = Call("Verify", e, c, r.err, "", r.msg, r.calls)
        /\ UNCHANGED <<entities, sent, generated>>

Authenticate(e, c, id, key, random, fault) ==
    LET r == AuthenticateOp(entities[e], containers[c], id, key, random, fault)
    IN  /\ containers' = [containers EXCEPT ![c] = r.con]
        /\ sent' = [sent EXCEPT ![c] =
                      IF r.err = Nil
                      THEN Sealed(@, "Authenticate", r.con, EmptyPem, HexDecode(key).bytes)
                      ELSE Unsealed(@)]
        /\ last' = [Call("Authenticate", e, c, r.err, "", r.msg, r.calls)
                      EXCEPT !.secret = HexDecode(key).bytes,
                             !.stale = IsSigned(containers[c])]
        /\ UNCHANGED <<entities, generated>>

VerifyAuthentication(e, c, key, random) ==
    LET r == VerifyAuthenticationOp(entities[e], containers[c], key, random)
    IN  /\ containers' = [containers EXCEPT ![c] = r.con]
        /\ last' = [Call("VerifyAuthentication", e, c, r.err, "", r.msg, r.calls)
                      EXCEPT !.secret = HexDecode(key).bytes, !.key = key,
                             !.random = random]
        /\ UNCHANGED <<entities, sent, generated>>

Decrypt(e, c) ==
    LET r == DecryptOp(entities[e], containers[c])
    IN  /\ last' = Call("Decrypt", e, c, r.err, r.out, <<>>, r.calls)
        /\ UNCHANGED <<entities, containers, sent, generated>>

\* A call that returns a new container (or nil with an error): the caller
\* keeps the container in slot c.
Returned(c, r, history) ==
    /\ containers' = IF r.ret THEN [containers EXCEPT ![c] = r.con] ELSE containers
    /\ sent' = IF r.ret THEN [sent EXCEPT ![c] = history] ELSE sent

SignString(e, c, content, fault) ==
    LET r == SignStringOp(entities[e], content, fault)
    IN  /\ Returned(c, r, Sealed(NoHistory, "Sign", r.con,
                                 entities[e].PublicSigningKey, <<>>))
        /\ last' = [Call("SignString", e, c, r.err, "", r.msg, r.calls)
                      EXCEPT !.ret = r.ret]
        /\ UNCHANGED <<entities, generated>>

AuthenticateString(e, c, content, id, key, random, fault) ==
    LET r == AuthenticateStringOp(entities[e], content, id, key, random, fault)
    IN  /\ Returned(c, r, Sealed(NoHistory, "Authenticate", r.con, EmptyPem,
                                 HexDecode(key).bytes))
        /\ last' = [Call("AuthenticateString", e, c, r.err, "", r.msg, r.calls)
                      EXCEPT !.ret = r.ret, !.secret = HexDecode(key).bytes]
        /\ UNCHANGED <<entities, generated>>

Encrypt(e, c, content, recipients, ck) ==
    LET r == EncryptOp(entities[e], content, Resolve(recipients), ck)
    IN  /\ Returned(c, r, Encrypted(content, Addressed(e, recipients), r.con))
        /\ last' = [Call("Encrypt", e, c, r.err, "", <<>>, r.calls)
                      EXCEPT !.ret = r.ret, !.keys = r.keys, !.rcpt = recipients,
                             !.arg = r.arg]
        /\ UNCHANGED <<entities, generated>>

EncryptThenSignString(e, c, content, recipients, ck, fault) ==
    LET r == EncryptThenSignStringOp(entities[e], content, Resolve(recipients), ck, fault)
    IN  /\ Returned(c, r, Sealed(Encrypted(content, Addressed(e, recipients), r.con), "Sign", r.con,
                                 entities[e].PublicSigningKey, <<>>))
        /\ last' = [Call("EncryptThenSignString", e, c, r.err, "", r.msg, r.calls)
                      EXCEPT !.ret = r.ret, !.keys = r.keys, !.rcpt = recipients]
        /\ UNCHANGED <<entities, generated>>

EncryptThenAuthenticateString(e, c, content, recipients, ck, id, key, random, fault) ==
    LET r == EncryptThenAuthenticateStringOp(entities[e], content, Resolve(recipients),
                                             id, key, ck, random, fault)
    IN  /\ Returned(c, r, Sealed(Encrypted(content, Addressed(e, recipients), r.con), "Authenticate",
                                 r.con, EmptyPem, HexDecode(key).bytes))
        /\ last' = [Call("EncryptThenAuthenticateString", e, c, r.err, "", r.msg, r.calls)
                      EXCEPT !.ret = r.ret, !.keys = r.keys, !.rcpt = recipients,
                             !.secret = HexDecode(key).bytes]
        /\ UNCHANGED <<entities, generated>>

VerifyThenDecrypt(e, c) ==
    LET r == VerifyThenDecryptOp(entities[e], containers[c])
    IN  /\ containers' = [containers EXCEPT ![c] = r.con]
        /\ last' = Call("VerifyThenDecrypt", e, c, r.err, r.out, r.msg, r.calls)
        /\ UNCHANGED <<entities, sent, generated>>

VerifyAuthenticationThenDecrypt(e, c, key, random) ==
    LET r == VerifyAuthenticationThenDecryptOp(entities[e], containers[c], key, random)
    IN  /\ containers' = [containers EXCEPT ![c] = r.con]
        /\ last' = [Call("VerifyAuthenticationThenDecrypt", e, c, r.err, r.out, r.msg,
                         r.calls) EXCEPT !.secret = HexDecode(key).bytes, !.key = key,
                                         !.random = random]
        /\ UNCHANGED <<entities, sent, generated>>

\* The holder of a container writes its body.
SetBody(c, body) ==
    /\ body # containers[c].Body
    /\ containers' = [containers EXCEPT ![c].Body = body]
    /\ last' = Call("SetBody", 0, c, Nil, "", <<>>, <<>>)
    /\ UNCHANGED <<entities, sent, generated>>

\* The holder of a container writes the salt of its signature inputs.
SetSalt(c, text) ==
    /\ text # MapGet(containers[c].SignatureInputs, "signature-salt")
    /\ containers' = [containers EXCEPT ![c].SignatureInputs =
                         MapPut(@, "signature-salt", text)]
    /\ last' = Call("SetSalt", 0, c, Nil, "", <<>>, <<>>)
    /\ UNCHANGED <<entities, sent, generated>>

\* The holder of a container writes its signature.
SetSignature(c, signature) ==
    /\ signature # containers[c].Signature
    /\ containers' = [containers EXCEPT ![c].Signature = signature]
    /\ last' = Call("SetSignature", 0, c, Nil, "", <<>>, <<>>)
    /\ UNCHANGED <<entities, sent, generated>>

--------------------------------------------------------------------------
(* Signing and verifying: key generation, public views, Sign, Verify *)

NextSign ==
    \E c \in OneCaller :
        \/ \E e \in {1, 2, 3} : GenerateKeys(e, "none")
        \/ \E e \in {1, 2} : Public(e, 4)
        \/ \E e \in {1, 2, 3}, content \in Contents : SignString(e, c, content, "none")
        \/ \E e \in EntitySlots, fault \in SignFaults : Sign(e, c, fault)
        \/ \E e \in EntitySlots : Verify(e, c)
        \/ \E body \in {PlainBody(t) : t \in Contents} : SetBody(c, body)

SpecSign == Init /\ [][NextSign]_vars

--------------------------------------------------------------------------
(* Keyed authentication: Authenticate, VerifyAuthentication *)

SaltTexts == {Base64Encode(s) : s \in Salts} \cup {"!"}

NextAuth ==
    \E c \in OneCaller, e \in {1, 2} :
        \/ \E content \in Contents, id \in KeyIds, key \in HexKeys, random \in Salts :
              AuthenticateString(e, c, content, id, key, random, "none")
        \/ \E id \in KeyIds, key \in HexKeys, random \in Salts,
              fault \in AuthenticateFaults :
              Authenticate(e, c, id, key, random, fault)
        \/ \E key \in HexKeys, random \in Salts : VerifyAuthentication(e, c, key, random)
        \/ \E text \in SaltTexts : SetSalt(c, text)
        \/ \E body \in {PlainBody(t) : t \in Contents} : SetBody(c, body)

SpecAuth == Init /\ [][NextAuth]_vars

--------------------------------------------------------------------------
(* Sealing one container again and again: Sign and Authenticate *)

NextSeal ==
    \E c \in OneCaller :
        \/ \E e \in {1, 2} : GenerateKeys(e, "none")
        \/ \E e \in {1, 2, 3}, fault \in SignFaults : Sign(e, c, fault)
        \/ \E e \in {1, 2}, id \in KeyIds, key \in {"deadbeef", "xyz"}, random \in Salts,
              fault \in AuthenticateFaults :
              Authenticate(e, c, id, key, random, fault)
        \/ \E body \in {PlainBody(t) : t \in Contents} : SetBody(c, body)

SpecSeal == Init /\ [][NextSeal]_vars

--------------------------------------------------------------------------
(* Encrypting for recipients: Encrypt, Decrypt *)

\* Recipient arguments naming the two key holders and the public view.
AmongHolders ==
    {r \in Recipients : \A i \in DOMAIN r.list : r.list[i] \in {1, 2, 4}}

NextEncrypt ==
    \E c \in OneCaller :
        \/ \E e \in {1, 2} : GenerateKeys(e, "none")
        \/ \E e \in {1, 2} : Public(e, 4)
        \/ \E e \in {1, 2}, content \in Contents, recipients \in AmongHolders :
              Encrypt(e, c, content, recipients, 1)
        \/ \E e \in EntitySlots : Decrypt(e, c)

SpecEncrypt == Init /\ [][NextEncrypt]_vars

--------------------------------------------------------------------------
(* The composite protocols: encrypt then seal, verify then decrypt *)

\* Signatures a holder can write in place of the container's: the same
\* message under another key.
ForgedSignatures(signature) ==
    IF signature.alg \in {SignatureModeSha256Rsa, SignatureModeSha256Ecdsa}
    THEN {[signature EXCEPT !.key.gen = g] : g \in 1..MaxGenerate}
    ELSE IF signature.alg = SignatureModeSha256Hmac
    THEN {[signature EXCEPT !.key.salt = s] : s \in Salts}
    ELSE {}

\* Recipient arguments naming the two key holders.
AmongSenders ==
    {r \in Recipients : r.kind # "other" /\ \A i \in DOMAIN r.list : r.list[i] \in {1, 2}}

\* The sender alone, or both key holders.
SelfOrBoth == {[kind |-> "nil", list |-> <<>>], [kind |-> "list", list |-> <<1, 2>>]}

NextSigned ==
    \E c \in OneCaller :
        \/ \E e \in {1, 2} : GenerateKeys(e, "none")
        \/ \E e \in {1, 2}, content \in Contents, recipients \in AmongSenders :
              EncryptThenSignString(e, c, content, recipients, 1, "none")
        \/ \E e \in {1, 2} : VerifyThenDecrypt(e, c)
        \/ \E body \in {b \in Bodies : b.ck \in {0, 1}} : SetBody(c, body)
        \/ \E signature \in ForgedSignatures(containers[c].Signature) \cup {NoSignature} :
              SetSignature(c, signature)

SpecSigned == Init /\ [][NextSigned]_vars

NextComposite ==
    \E c \in OneCaller :
        \/ \E e \in {1, 2} : GenerateKeys(e, "none")
        \/ \E e \in {1, 2}, recipients \in SelfOrBoth :
              EncryptThenSignString(e, c, "hello", recipients, 1, "none")
        \/ \E e \in {1, 2}, recipients \in SelfOrBoth, random \in Salts :
              EncryptThenAuthenticateString(e, c, "hello", recipients, 1, "keyA",
                                            "deadbeef", random, "none")
        \/ \E e \in {1, 2} : VerifyThenDecrypt(e, c)
        \/ \E e \in {1, 2}, key \in {"deadbeef", "deadbee0"} :
              VerifyAuthenticationThenDecrypt(e, c, key, "s1")
        \/ \E signature \in ForgedSignatures(containers[c].Signature) :
              SetSignature(c, signature)

SpecComposite == Init /\ [][NextComposite]_vars

--------------------------------------------------------------------------
(* Every operation: two callers, each with its container, sharing the
   entities *)

\* The sender alone.
Self == [kind |-> "nil", list |-> <<>>]

Next ==
    \/ GenerateKeys(1, "none")
    \/ Public(1, 4)
    \/ \E c \in ContainerSlots :
          \/ Sign(1, c, "none")
          \/ Verify(1, c)
          \/ Encrypt(1, c, "hello", Self, 1)
          \/ Decrypt(1, c)
    \/ \E c \in OneCaller :
          \/ Authenticate(1, c, "keyA", "deadbeef", "s1", "none")
          \/ VerifyAuthentication(1, c, "deadbeef", "s1")
          \/ SignString(1, c, "hello", "none")
          \/ AuthenticateString(1, c, "hello", "keyA", "deadbeef", "s1", "none")
          \/ EncryptThenSignString(1, c, "hello", Self, 1, "none")
          \/ EncryptThenAuthenticateString(1, c, "hello", Self, 1, "keyA", "deadbeef",
                                           "s1", "none")
          \/ VerifyThenDecrypt(1, c)
          \/ VerifyAuthenticationThenDecrypt(1, c, "deadbeef", "s1")

Spec == Init /\ [][Next]_vars

--------------------------------------------------------------------------
(* An entity and its public view *)

NextView ==
    \/ GenerateKeys(1, "none")
    \/ Public(1, 4)
    \/ \E c \in OneCaller :
          \/ EncryptThenAuthenticateString(1, c, "hello", Self, 1, "keyA", "deadbeef",
                                           "s1", "none")
          \/ \E e \in {1, 4} :
                \/ Sign(e, c, "none")
                \/ Verify(e, c)
                \/ Encrypt(e, c, "hello", Self, 1)
                \/ Decrypt(e, c)
                \/ SignString(e, c, "hello", "none")
                \/ EncryptThenSignString(e, c, "hello", Self, 1, "none")
                \/ VerifyThenDecrypt(e, c)
                \/ VerifyAuthenticationThenDecrypt(e, c, "deadbeef", "s1")

SpecView == Init /\ [][NextView]_vars

--------------------------------------------------------------------------
(* Key generation with its failures *)

NextKeys ==
    \/ \E e \in {1, 2, 3}, fault \in GenerateFaults : GenerateKeys(e, fault)
    \/ \E e \in {1, 2} : Public(e, 4)
    \/ \E c \in OneCaller :
          \/ \E e \in {1, 2} : SignString(e, c, "hello", "none")
          \/ \E e \in {1, 2, 4} : Verify(e, c)

SpecKeys == Init /\ [][NextKeys]_vars

--------------------------------------------------------------------------
(* Verifying a container more than once *)

NextConsume ==
    \/ GenerateKeys(1, "none")
    \/ \E c \in OneCaller :
          \/ \E content \in Contents : SignString(1, c, content, "none")
          \/ \E random \in Salts :
                AuthenticateString(1, c, "hello", "keyA", "deadbeef", random, "none")
          \/ \E e \in {1, 2} : Verify(e, c)
          \/ \E key \in {"deadbeef", "deadbee0", "xyz"} :
                VerifyAuthentication(1, c, key, "s1")
          \/ \E body \in {PlainBody(t) : t \in Contents} : SetBody(c, body)

SpecConsume == Init /\ [][NextConsume]_vars

--------------------------------------------------------------------------
(* Properties of Sign and Verify *)

VerificationError == <<"Could not verify org container signature", "VerificationError">>

\* The entity in slot e holds the key pair the container in slot c was signed with.
HoldsSigner(e, c) ==
    /\ sent[c].sealOp = "Sign"
    /\ entities[e].PublicSigningKey = sent[c].signer

\* The container in slot c is as Sign left it but for its body.
BodyChanged(c) ==
    /\ containers[c].Body # sent[c].sealed.Body
    /\ containers[c] = [sent[c].sealed EXCEPT !.Body = containers[c].Body]

\* C1: a Verify of the container as Sign left it, by the signing entity or an
\* entity holding the same public signing key (its public view), returns nil;
\* a Verify of that container with only its body changed returns the
\* verification error.
C1_SignThenVerify ==
    [][\A e \in EntitySlots, c \in ContainerSlots :
          (last'.op = "Verify" /\ last'.ent = e /\ last'.con = c /\ HoldsSigner(e, c))
              => /\ containers[c] = sent[c].sealed => last'.err = Nil
                 /\ BodyChanged(c) => last'.err = VerificationError]_vars

\* C1 witness: a public view (no private keys) has verified, with success, an
\* unchanged container signed with an EC key.
C1_Witness ==
    /\ last.op = "Verify" /\ last.err = Nil
    /\ entities[last.ent].PrivateSigningKey = EmptyPem
    /\ sent[last.con].sealOp = "Sign"
    /\ sent[last.con].signer.kt = KeyTypeEC
    /\ containers[last.con] = [sent[last.con].sealed EXCEPT !.Signature = NoSignature]

\* The signature mode of a key type.
ModeOfKeyType(keyType) ==
    CASE keyType = "rsa" -> "RSA-SHA256"
      [] keyType = "ec" -> "ECDSA-SHA256"
      [] OTHER -> ""

\* The error Sign itself returned in the last call (SignString wraps it).
SignError ==
    IF last.op = "Sign" \/ last.err = Nil THEN last.err ELSE Tail(last.err)

\* C8: after a successful Sign the container's signature mode, and the
\* algorithm of its signature, is the one of the entity's key type (RSA-SHA256
\* for rsa, ECDSA-SHA256 for ec); with any other key type Sign returns the
\* invalid-key-type error and has called no signing primitive.
C8_ModeFollowsKeyType ==
    last.op \in {"Sign", "SignString"} =>
        LET keyType == entities[last.ent].KeyType
            con == containers[last.con]
        IN  /\ last.err = Nil =>
                /\ keyType \in {"rsa", "ec"}
                /\ con.SignatureMode = ModeOfKeyType(keyType)
                /\ con.Signature.alg = ModeOfKeyType(keyType)
            /\ keyType \notin {"rsa", "ec"} =>
                /\ SignError = <<"Invalid key type">>
                /\ last.calls = <<>>
                /\ last.msg = <<>>

\* C8 witness: an EC entity has signed.
C8_Witness ==
    /\ last.op = "Sign" /\ last.err = Nil
    /\ entities[last.ent].KeyType = "ec"
    /\ containers[last.con].SignatureMode = "ECDSA-SHA256"

\* C6: Public gives an entity with the receiver's id, name, key type and
\* public keys and with both private keys empty, and leaves the receiver as
\* it was; a later key generation on one entity leaves every other entity,
\* its public view included, as it was.
C6_PublicView ==
    [][/\ last'.op = "Public" =>
            LET orig == entities[last'.ent]
                view == entities'[last'.to]
            IN  /\ view.Id = orig.Id /\ view.Name = orig.Name
                /\ view.KeyType = orig.KeyType
                /\ view.PublicSigningKey = orig.PublicSigningKey
                /\ view.PublicEncryptionKey = orig.PublicEncryptionKey
                /\ view.PrivateSigningKey = EmptyPem
                /\ view.PrivateEncryptionKey = EmptyPem
                /\ entities'[last'.ent] = orig
       /\ last'.op = "GenerateKeys" =>
            \A s \in EntitySlots \ {last'.ent} : entities'[s] = entities[s]]_vars

\* C6 witness: a view was taken of an entity that holds private keys.
C6_Witness ==
    /\ last.op = "Public"
    /\ entities[last.ent].PrivateSigningKey.kind = "private"
    /\ entities[last.ent].PrivateEncryptionKey.kind = "private"
    /\ entities[last.to].PublicSigningKey = entities[last.ent].PublicSigningKey
    /\ entities[last.to].PrivateSigningKey = EmptyPem

--------------------------------------------------------------------------
(* Properties of Authenticate and VerifyAuthentication *)

AuthenticationVerificationError ==
    <<"Couldn't verify container", "AuthenticationVerificationError">>

\* The container in slot c is as Authenticate left it but for its salt, which
\* is the salt another call of Authenticate drew.
SaltReplaced(c) ==
    \E s \in Salts :
        /\ Base64Encode(s) # MapGet(sent[c].sealed.SignatureInputs, "signature-salt")
        /\ containers[c] =
              [sent[c].sealed EXCEPT !.SignatureInputs =
                  MapPut(@, "signature-salt", Base64Encode(s))]

\* C3: VerifyAuthentication of the container as Authenticate left it returns
\* nil with a key that decodes to the secret of Authenticate, and the
\* verification error with a hex key that decodes to any other secret; with
\* the salt replaced by the salt of another Authenticate call it returns an
\* error whatever the key.
C3_AuthenticateThenVerify ==
    [][\A c \in ContainerSlots, key \in HexKeys :
          (/\ last'.op = "VerifyAuthentication" /\ last'.con = c
           /\ sent[c].sealOp = "Authenticate"
           /\ HexDecode(key).err = Nil
           /\ last'.secret = HexDecode(key).bytes
           /\ last'.err # Errorf("Could not decode key", <<"InvalidEncoding">>))
              => /\ (containers[c] = sent[c].sealed /\ last'.secret = sent[c].secret)
                        => last'.err = Nil
                 /\ (containers[c] = sent[c].sealed /\ last'.secret # sent[c].secret)
                        => last'.err = AuthenticationVerificationError
                 /\ SaltReplaced(c) => last'.err # Nil]_vars

\* C3 witness: an unchanged authenticated container was verified, with
\* success, with the secret it was authenticated with.
C3_Witness ==
    /\ last.op = "VerifyAuthentication" /\ last.err = Nil
    /\ sent[last.con].sealOp = "Authenticate"
    /\ last.secret = sent[last.con].secret
    /\ containers[last.con] = [sent[last.con].sealed EXCEPT !.Signature = NoSignature]

--------------------------------------------------------------------------
(* Properties of what is signed *)

\* C10: the bytes Sign hands to crypto.Sign, and Authenticate to crypto.HMAC,
\* serialize the container with an empty signature, with the new signature
\* mode (and, for Authenticate, the new signature inputs: key id and salt) and
\* with the source, body and encryption fields of the container that came in,
\* also when that container came in signed; they are the bytes a verifier
\* gets from the container the call leaves, signature cleared.
C10_SignedBytes ==
    [][(last'.op \in {"Sign", "Authenticate"} /\ last'.calls # <<>>
            /\ last'.calls[Len(last'.calls)] \in {"crypto.Sign", "crypto.HMAC"})
        => LET before == containers[last'.con]
               after == containers'[last'.con]
               mode == IF last'.op = "Sign"
                       THEN ModeOfKeyType(entities[last'.ent].KeyType)
                       ELSE "HMAC-SHA256"
               inputs == last'.msg[3]
           IN  /\ Len(last'.msg) = 7
               /\ last'.msg[4] = NoSignature
               /\ last'.msg[2] = mode
               /\ last'.op = "Authenticate" =>
                     /\ {p[1] : p \in inputs} = {"key-id", "signature-salt"}
                     /\ MapGet(inputs, "key-id") \in KeyIds
                     /\ Base64Decode(MapGet(inputs, "signature-salt")).bytes \in Salts
               /\ last'.op = "Sign" => inputs = before.SignatureInputs
               /\ last'.msg[1] = before.Source /\ last'.msg[5] = before.EncryptionMode
               /\ last'.msg[6] = before.EncryptionKeys /\ last'.msg[7] = before.Body
               /\ last'.msg = Dump([after EXCEPT !.Signature = NoSignature])]_vars

\* C10 witness: Sign has signed a container that came in carrying the code of
\* an earlier Authenticate.
C10_Witness ==
    /\ last.op = "Sign" /\ last.err = Nil /\ last.stale
    /\ MapHas(containers[last.con].SignatureInputs, "signature-salt")
    /\ last.msg[4] = NoSignature

--------------------------------------------------------------------------
(* Properties of Encrypt and Decrypt *)

DecryptionError == <<"Could not decrypt", "DecryptionError">>

\* The entity holds the private encryption key of its public encryption key.
HoldsEncryptionKey(ent) ==
    /\ ent.PublicEncryptionKey.kind = "public"
    /\ ent.PrivateEncryptionKey.kind = "private"
    /\ PemDecode(ent.PrivateEncryptionKey) = PemDecode(ent.PublicEncryptionKey)

\* The recipients are a set of entities: no two of them share an id.
DistinctIds(rcpt) == \A p, q \in rcpt : p[1] = q[1] => p = q

\* C4: on the container Encrypt(content, R) returned (R the given entities
\* with distinct ids, or the sender when absent), Decrypt by an entity of R
\* that holds its private encryption key returns content and nil; Decrypt by
\* an entity whose id is not in R returns "" and an error, the decryption
\* error when the entity holds a private encryption key.
C4_EncryptThenDecrypt ==
    last.op = "Decrypt" =>
        LET ent == entities[last.ent]
            h == sent[last.con]
        IN  (IsEncrypted(h.enc) /\ containers[last.con] = h.enc /\ DistinctIds(h.rcpt)) =>
               /\ (<<ent.Id, ent.PublicEncryptionKey>> \in h.rcpt /\ HoldsEncryptionKey(ent))
                     => (last.err = Nil /\ last.out = h.content)
               /\ (\A p \in h.rcpt : p[1] # ent.Id)
                     => /\ last.err # Nil /\ last.out = ""
                        /\ ent.PrivateEncryptionKey.kind = "private"
                              => last.err = DecryptionError

\* C4 witness: one of two recipients, not the sender, has decrypted the content.
C4_Witness ==
    /\ last.op = "Decrypt" /\ last.err = Nil
    /\ containers[last.con] = sent[last.con].enc
    /\ Cardinality(sent[last.con].rcpt) = 2
    /\ last.out = sent[last.con].content
    /\ entities[last.ent].Id # containers[last.con].Source

--------------------------------------------------------------------------
(* Properties of the composite protocols *)

\* C2: in a call of VerifyThenDecrypt (VerifyAuthenticationThenDecrypt) on a
\* container that Verify (VerifyAuthentication) rejects, container.Decrypt is
\* not called and the call returns "" with an error; whenever
\* container.Decrypt is called, the verification came before it and returned nil.
C2_VerifyBeforeDecrypt ==
    [][last'.op \in {"VerifyThenDecrypt", "VerifyAuthenticationThenDecrypt"} =>
          LET ent == entities[last'.ent]
              con == containers[last'.con]
              verified == IF last'.op = "VerifyThenDecrypt"
                          THEN VerifyOp(ent, con)
                          ELSE VerifyAuthenticationOp(ent, con, last'.key, last'.random)
              called == {last'.calls[i] : i \in DOMAIN last'.calls}
          IN  /\ verified.err # Nil =>
                    /\ "container.Decrypt" \notin called
                    /\ last'.out = ""
                    /\ last'.err # Nil
              /\ "container.Decrypt" \in called =>
                    /\ verified.err = Nil
                    /\ last'.calls[Len(last'.calls)] = "container.Decrypt"
                    /\ Len(last'.calls) > 1]_vars

\* C2 witness: VerifyThenDecrypt has refused, at the verification, a
\* container that the caller could have decrypted.
C2_Witness ==
    /\ last.op = "VerifyThenDecrypt"
    /\ last.err # Nil /\ last.err[1] = "Could not verify container"
    /\ last.out = ""
    /\ DecryptOp(entities[last.ent], containers[last.con]).err = Nil

\* C5: VerifyThenDecrypt of the container as EncryptThenSignString left it,
\* by an entity that holds the signer's public key and is a recipient holding
\* its private encryption key, returns the content and nil; if the container
\* differs from the one EncryptThenSignString left (its signature or any
\* signed field was written since), VerifyThenDecrypt by a holder of the
\* signer's public key returns "" and an error.
C5_SealedRoundTrip ==
    [][\A e \in EntitySlots, c \in ContainerSlots :
          (/\ last'.op = "VerifyThenDecrypt" /\ last'.ent = e /\ last'.con = c
           /\ HoldsSigner(e, c) /\ IsEncrypted(sent[c].enc))
              => /\ (/\ containers[c] = sent[c].sealed
                     /\ DistinctIds(sent[c].rcpt)
                     /\ <<entities[e].Id, entities[e].PublicEncryptionKey>> \in sent[c].rcpt
                     /\ HoldsEncryptionKey(entities[e]))
                        => (last'.err = Nil /\ last'.out = sent[c].content)
                 /\ containers[c] # sent[c].sealed
                        => (last'.err # Nil /\ last'.out = "")]_vars

\* C5 witness: the sender has read back the content it encrypted and signed.
C5_Witness ==
    /\ last.op = "VerifyThenDecrypt" /\ last.err = Nil
    /\ sent[last.con].sealOp = "Sign" /\ IsEncrypted(sent[last.con].enc)
    /\ last.out = sent[last.con].content /\ last.out # ""
    /\ containers[last.con] = [sent[last.con].sealed EXCEPT !.Signature = NoSignature]

--------------------------------------------------------------------------
(* Properties of entities without private keys *)

PrivateKeyMissing == <<"PrivateKeyMissing">>

\* The entity holds no private key.
IsPublicView(ent) ==
    ent.PrivateSigningKey = EmptyPem /\ ent.PrivateEncryptionKey = EmptyPem

Called(call) == {call.calls[i] : i \in DOMAIN call.calls}

--------------------------------------------------------------------------
(* Properties of the entity under its operations *)

\* C9: every operation but GenerateKeys leaves every entity, the one it is
\* called on among them, as it was (Public puts the new entity it returns in
\* a slot of its own), and leaves the containers of the other callers as they
\* were: a call's result depends on the entity and the caller's own container
\* alone.
C9_OnlyGenerateKeysWrites ==
    [][last'.op # "GenerateKeys" =>
          /\ \A s \in EntitySlots :
                (last'.op = "Public" /\ s = last'.to) \/ entities'[s] = entities[s]
          /\ \A c \in ContainerSlots \ {last'.con} :
                containers'[c] = containers[c] /\ sent'[c] = sent[c]]_vars

\* C9 witness: an entity holding keys has signed the container of one caller
\* while another caller holds a container it signed before.
C9_Witness ==
    /\ last.op = "Sign" /\ last.err = Nil /\ last.con = 2
    /\ IsSigned(containers[1]) /\ IsSigned(containers[2])
    /\ sent[1].signer = entities[last.ent].PublicSigningKey
    /\ entities[last.ent].PrivateSigningKey.kind = "private"

--------------------------------------------------------------------------
(* Properties of the signature mode and the signature inputs *)

\* The mode of the operation attempted by the last call of Sign or Authenticate.
AttemptedMode ==
    IF last.op = "Sign"
    THEN ModeOfKeyType(entities[last.ent].KeyType)
    ELSE SignatureModeSha256Hmac

\* C11: after every call of Sign or Authenticate, whether it returned nil or
\* an error, the container's signature mode is the mode of the operation
\* attempted: the mode of the entity's key type for Sign, HMAC-SHA256 for
\* Authenticate.  (Authenticate returns before it writes the mode when the
\* key is not hex or the key expansion fails, and Sign when the key type is
\* not supported: the statement does not hold of the code.)
C11_ModeOnEveryPath ==
    last.op \in {"Sign", "Authenticate"} =>
        containers[last.con].SignatureMode = AttemptedMode

\* C12: after every call of Sign that returned nil the container's signature
\* inputs are empty, whatever the container held before.  (Sign does not
\* write the signature inputs: the entries of an earlier Authenticate stay,
\* and the statement does not hold of the code.)
C12_SignLeavesNoInputs ==
    (last.op = "Sign" /\ last.err = Nil) =>
        containers[last.con].SignatureInputs = {}

--------------------------------------------------------------------------
(* Properties of the recipients of Encrypt *)

InvalidRecipients == <<"Invalid entities given">>

\* The recipients argument is absent or a list of at least one entity.
ProperRecipients(recipients) ==
    \/ recipients.kind = "nil"
    \/ recipients.kind = "list" /\ recipients.list # <<>>

\* C13: a call of Encrypt whose recipients argument is neither absent nor a
\* non-empty list of entities returns the invalid-recipients error and no
\* container without calling container.Encrypt, and container.Encrypt is
\* never given an empty key map.  (Encrypt takes an empty list through the
\* []*Entity case and hands container.Encrypt the empty map: the statement
\* does not hold of the code.)
C13_RecipientsChecked ==
    last.op = "Encrypt" =>
        /\ ~ProperRecipients(last.rcpt) =>
              /\ last.err = InvalidRecipients
              /\ ~last.ret
              /\ last.calls = <<>>
        /\ "container.Encrypt" \in Called(last) => last.keys # {}

\* C14: after a call of Encrypt that returned nil, the container's source is
\* the caller's id, and the container handed to container.Encrypt already
\* carried it; the key map handed over has as its keys exactly the ids of
\* the given recipients (the caller's id alone when none were given), maps
\* each id to the public encryption key of the recipient with that id (the
\* recipients being entities with distinct ids), and holds no private key
\* field of any entity.
C14_SourceAndKeyMap ==
    (last.op = "Encrypt" /\ last.err = Nil) =>
        LET ent == entities[last.ent]
            given == Addressed(last.ent, last.rcpt)
        IN  /\ last.ret
            /\ containers[last.con].Source = ent.Id
            /\ last.arg.Source = ent.Id /\ ~IsEncrypted(last.arg)
            /\ {p[1] : p \in last.keys} = {p[1] : p \in given}
            /\ last.rcpt.kind = "nil" =>
                  last.keys = {<<ent.Id, ent.PublicEncryptionKey>>}
            /\ DistinctIds(given) => last.keys = given
            /\ last.keys \subseteq given
            /\ \A p \in last.keys, s \in EntitySlots :
                  /\ p[2].kind = "public"
                  /\ p[2] \notin {entities[s].PrivateSigningKey,
                                  entities[s].PrivateEncryptionKey}

\* C14 witness: an entity has encrypted for a list of two entities, the
\* first of them another entity.
C14_Witness ==
    /\ last.op = "Encrypt" /\ last.err = Nil
    /\ last.rcpt.kind = "list" /\ Len(last.rcpt.list) = 2
    /\ Cardinality(last.keys) = 2
    /\ last.rcpt.list[1] # last.ent
    /\ containers[last.con].Source = entities[last.ent].Id

--------------------------------------------------------------------------
(* Properties of verification on containers without a usable seal *)

\* The container has no signature-salt entry, or one that is not base64.
BadSalt(con) ==
    \/ ~MapHas(con.SignatureInputs, "signature-salt")
    \/ Base64Decode(MapGet(con.SignatureInputs, "signature-salt")).err # Nil

\* C15: a call of VerifyAuthentication on a container whose signature-salt is
\* missing or is not base64 returns an error at the decoding of the salt: no
\* key is expanded, no HMAC is computed or compared, and the container keeps
\* its signature.  (VerifyAuthentication builds the decoding error and drops
\* it, expands the key with the salt it has and verifies: the statement does
\* not hold of the code.)
C15_BadSaltFailsAtDecode ==
    [][\A c \in ContainerSlots :
          (last'.op = "VerifyAuthentication" /\ last'.con = c /\ BadSalt(containers[c])) =>
              /\ last'.err # Nil
              /\ last'.calls = <<>>
              /\ containers'[c] = containers[c]]_vars

NotSignedError == <<"Container isn't signed">>

\* C16: a call of Verify on a container whose signature is empty returns the
\* not-signed error, calls no verification primitive and leaves every field
\* of the container as it was.
C16_UnsignedRefused ==
    [][\A c \in ContainerSlots :
          (last'.op = "Verify" /\ last'.con = c /\ ~IsSigned(containers[c])) =>
              /\ last'.err = NotSignedError
              /\ last'.calls = <<>> /\ last'.msg = <<>>
              /\ containers'[c] = containers[c]]_vars

\* C16 witness: Verify has refused a container that has a body and a
\* signature mode but no signature.
C16_Witness ==
    /\ last.op = "Verify" /\ last.err = NotSignedError
    /\ containers[last.con].Body.text # ""
    /\ containers[last.con].SignatureMode # ""
    /\ ~IsSigned(containers[last.con])

--------------------------------------------------------------------------
(* Properties of key generation *)

KeyFields(ent) ==
    <<ent.PublicSigningKey, ent.PrivateSigningKey,
      ent.PublicEncryptionKey, ent.PrivateEncryptionKey>>

\* C17: a call of GenerateKeys on an entity whose key type is neither rsa
\* nor ec returns the invalid-key-type error, calls no key generator (nor
\* any other function of crypto) and leaves the entity, its four key fields
\* among the rest, as it was.
C17_UnsupportedKeyType ==
    [][\A e \in EntitySlots :
          (/\ last'.op = "GenerateKeys" /\ last'.ent = e
           /\ entities[e].KeyType \notin {KeyTypeRSA, KeyTypeEC}) =>
              /\ last'.err = <<"Invalid key type">>
              /\ last'.calls = <<>>
              /\ KeyFields(entities'[e]) = KeyFields(entities[e])
              /\ entities'[e] = entities[e]]_vars

\* C17 witness: GenerateKeys has refused an entity of key type "dsa".
C17_Witness ==
    /\ last.op = "GenerateKeys"
    /\ entities[last.ent].KeyType = "dsa"
    /\ last.err = <<"Invalid key type">>
    /\ KeyFields(entities[last.ent]) = <<EmptyPem, EmptyPem, EmptyPem, EmptyPem>>

\* The four key fields are the two key pairs of generation g, of the
\* entity's key type.
NewPairs(ent, g) ==
    LET signingKey == GenerateKey(ent.KeyType, "sign", g)
        encryptionKey == GenerateKey(ent.KeyType, "enc", g)
    IN  KeyFields(ent) =
            <<PemEncodePublic(signingKey), PemEncodePrivate(signingKey),
              PemEncodePublic(encryptionKey), PemEncodePrivate(encryptionKey)>>

\* Each private key the entity holds is of the pair of its public key.
Paired(ent) ==
    /\ ent.PrivateSigningKey # EmptyPem =>
          PemDecode(ent.PrivateSigningKey) = PemDecode(ent.PublicSigningKey)
    /\ ent.PrivateEncryptionKey # EmptyPem =>
          PemDecode(ent.PrivateEncryptionKey) = PemDecode(ent.PublicEncryptionKey)

\* C18: a call of GenerateKeys that returns an error leaves the four key
\* fields as they were, one that returns nil leaves them holding the two key
\* pairs it generated, and in every state each private key of an entity is of
\* the pair of its public key.  (GenerateKeys writes the fields one by one,
\* and generateRSAKeys writes the public signing key before GenerateKeys
\* encodes anything: an encoding that fails leaves the fields written before
\* it.  The statement does not hold of the code.)
C18_AllOrNothing ==
    /\ [][\A e \in EntitySlots :
             (last'.op = "GenerateKeys" /\ last'.ent = e) =>
                 /\ last'.err # Nil => KeyFields(entities'[e]) = KeyFields(entities[e])
                 /\ last'.err = Nil => NewPairs(entities'[e], generated')]_vars
    /\ [](\A s \in EntitySlots : Paired(entities[s]))

--------------------------------------------------------------------------
(* Properties of the signature under verification *)

\* The last call was a verification of the container in slot c that reached
\* its primitive.
Verified(call, c) ==
    /\ call.op \in {"Verify", "VerifyAuthentication"} /\ call.con = c
    /\ Called(call) \cap {"crypto.Verify", "crypto.HMACVerify"} # {}

\* C19: a call of Verify on a signed container, and a call of
\* VerifyAuthentication on a signed container that returns nil or the
\* verification error, leaves the container's signature empty; a Verify
\* that follows a verification of the same container returns the not-signed
\* error, and a VerifyAuthentication that follows one returns an error,
\* whatever the first verification returned.
C19_SignatureConsumed ==
    [][\A c \in ContainerSlots :
          /\ (last'.op = "Verify" /\ last'.con = c /\ IsSigned(containers[c])) =>
                /\ containers'[c] = [containers[c] EXCEPT !.Signature = NoSignature]
                /\ last'.calls = <<"crypto.Verify">>
          /\ (/\ last'.op = "VerifyAuthentication" /\ last'.con = c
              /\ IsSigned(containers[c])
              /\ last'.err \in {Nil, AuthenticationVerificationError}) =>
                containers'[c] = [containers[c] EXCEPT !.Signature = NoSignature]
          /\ (Verified(last, c) /\ last'.con = c) =>
                /\ last'.op = "Verify" => last'.err = NotSignedError
                /\ last'.op = "VerifyAuthentication" => last'.err # Nil]_vars

\* C19 witness: a Verify was refused a container that is, but for its
\* signature, as Sign left it: its signature went to a verification before.
C19_Witness ==
    /\ last.op = "Verify" /\ last.err = NotSignedError
    /\ sent[last.con].sealOp = "Sign"
    /\ IsSigned(sent[last.con].sealed)
    /\ containers[last.con] = [sent[last.con].sealed EXCEPT !.Signature = NoSignature]

--------------------------------------------------------------------------
(* Properties of the caller of VerifyThenDecrypt *)

\* C20: on the container as EncryptThenSignString by a sender left it,
\* VerifyThenDecrypt by an entity whose public signing key is not the
\* sender's returns "" and the error of the verification without calling
\* container.Decrypt, also when the entity is a recipient and whatever the
\* container's source; it returns nil only to an entity that holds the
\* sender's public signing key, whose id is among the recipients' and that
\* holds a private encryption key.
C20_CallerIsSignerAndRecipient ==
    [][\A e \in EntitySlots, c \in ContainerSlots :
          (/\ last'.op = "VerifyThenDecrypt" /\ last'.ent = e /\ last'.con = c
           /\ sent[c].sealOp = "Sign" /\ IsEncrypted(sent[c].enc)
           /\ containers[c] = sent[c].sealed) =>
              /\ entities[e].PublicSigningKey # sent[c].signer =>
                    /\ last'.err # Nil
                    /\ last'.err[1] = "Could not verify container"
                    /\ last'.out = ""
                    /\ last'.calls = <<"crypto.Verify">>
              /\ last'.err = Nil =>
                    /\ entities[e].PublicSigningKey = sent[c].signer
                    /\ \E p \in sent[c].rcpt : p[1] = entities[e].Id
                    /\ entities[e].PrivateEncryptionKey.kind = "private"
                    /\ last'.out = sent[c].content]_vars

\* C20 witness: a recipient that holds its keys, and could decrypt the
\* container, was refused at the verification: its signing key is not the
\* sender's.
C20_Witness ==
    LET ent == entities[last.ent]
        h == sent[last.con]
    IN  /\ last.op = "VerifyThenDecrypt"
        /\ last.err # Nil /\ last.err[1] = "Could not verify container"
        /\ last.out = ""
        /\ h.sealOp = "Sign" /\ IsEncrypted(h.enc)
        /\ containers[last.con] = [h.sealed EXCEPT !.Signature = NoSignature]
        /\ <<ent.Id, ent.PublicEncryptionKey>> \in h.rcpt
        /\ HoldsEncryptionKey(ent)
        /\ ent.PublicSigningKey.kind = "public"
        /\ ent.PublicSigningKey # h.signer
        /\ ent.Id # containers[last.con].Source
        /\ DecryptOp(ent, containers[last.con]).err = Nil

====
